---- MODULE Spec2Model ----
(***************************************************************************)
(* A model of fdb-summit-talk/simulation.actor.cpp: the RandomSim          *)
(* scheduler (virtual clock, pending tasks, the two scheduling             *)
(* strategies, buggified delays) and the RecordRandomBytes /               *)
(* ReplayRandomBytes byte encoding of random draws; and of                 *)
(* quorumEqualsTrue in flow/genericactors.actor.cpp.                       *)
(*                                                                         *)
(* Virtual time is a double in the source.  Here it is an integer number   *)
(* of ticks of 0.05 seconds, so that 0.2 seconds is 4 ticks.  A random01   *)
(* draw of the scheduler is a number of halves (0 is 0.0, 1 is 0.5).       *)
(* Non-finite doubles (infinity, NaN) are not part of the model.           *)
(***************************************************************************)
EXTENDS Integers, Sequences, FiniteSets, TLC

VARIABLES
    scheduling_strategy_,   \* RandomSim::scheduling_strategy_
    max_buggified_delay,    \* RandomSim::max_buggified_delay, in ticks
    now_,                   \* RandomSim::now_, in ticks
    tasks_,                 \* RandomSim::tasks_, a vector of Task
    stable,                 \* RandomSim::stable, the next sequence number
    running,                \* RandomSim::running
    pc,                     \* where control is: "main", "run" or "task"
    resumed,                \* history: one entry per task.p.send(Void())
    enqueued,               \* history: one entry per delay() call
    negDelay,               \* history: some delay(d) was called with d < 0
    runAfterStop,           \* history: run() was called after stop()
    stoppedIn,              \* history: where stop() was first called from
    oracle,                 \* the Random that rand_ points to
    draws,                  \* history: the draws the scheduler made on rand_
    mode,                   \* codec: "off", "roundtrip" or "fuzz"
    cpc,                    \* codec: "record", "replay", "EndSimulation"
    rec_bytes,              \* RecordRandomBytes::bytes
    rep_bytes,              \* ReplayRandomBytes::bytes
    calls,                  \* history: the draws made on RecordRandomBytes
    results,                \* history: the draws made on ReplayRandomBytes
    rep_input,              \* history: the bytes ReplayRandomBytes was given
    attempt,                \* history: the last draw made on ReplayRandomBytes
    elements,               \* ExampleService::elements
    actors,                 \* the state of each client of clients()
    started,                \* the number of actors runSimulation has started
    interleaved,            \* history: a swap began inside another swap
    sharedOverlap,          \* history: ... and the two swaps share a slot
    futures,                \* quorumEqualsTrue: the state of each future
    required,               \* quorumEqualsTrue: the argument required
    qpc,                    \* quorumEqualsTrue: "off", "start", "choose", "done"
    qresult,                \* quorumEqualsTrue: the values it has returned
    qfutures                \* history: futures when quorumEqualsTrue returned

schedVars == <<scheduling_strategy_, max_buggified_delay, now_, tasks_, stable,
               running, pc, resumed, enqueued, negDelay, runAfterStop,
               stoppedIn, oracle, draws>>
codecVars == <<mode, cpc, rec_bytes, rep_bytes, calls, results, rep_input,
               attempt>>
workloadVars == <<elements, actors, started, interleaved, sharedOverlap>>
quorumVars == <<futures, required, qpc, qresult, qfutures>>
vars == <<scheduling_strategy_, max_buggified_delay, now_, tasks_, stable,
          running, pc, resumed, enqueued, negDelay, runAfterStop, stoppedIn,
          oracle, draws,
          mode, cpc, rec_bytes, rep_bytes, calls, results, rep_input, attempt,
          elements, actors, started, interleaved, sharedOverlap,
          futures, required, qpc, qresult, qfutures>>

----------------------------------------------------------------------------
(* Bounds *)

\* delay() is called at most MaxTasks times in a behaviour
MaxTasks == 3

\* delay() is called at most MaxDrawTasks times in a behaviour that counts the
\* draws of the scheduler
MaxDrawTasks == 2

----------------------------------------------------------------------------
(* The scheduler: RandomSim *)

SchedulingStrategy == {"InOrder", "RandomOrder"}

\* the values a random01() draw of the scheduler takes, in halves
R01 == {0, 1}

\* the arguments of delay(), in ticks
Delays == {-1, 0, 1, 3}

\* 0.2 seconds, in ticks
BuggifyFactor == 4

\* the implementations of Random that the scheduler can be given
Oracles == {"FairRandom", "ReplayRandomBytes"}

\* the values a random01() draw takes on an oracle, in halves: FairRandom
\* draws from [0, 1), ReplayRandomBytes returns u / (2^32 - 1), which is 1.0
\* for the bytes FF FF FF FF
Random01Values(o) == IF o = "ReplayRandomBytes" THEN R01 \cup {2} ELSE R01

\* random01() < 0.25, for a draw r in halves
LessThanQuarter(r) == 4 * r < 2

\* max_buggified_delay(s, r): the constructor's initialiser,
\* 0.2 * rand->random01() under InOrder and 0 otherwise
InitMaxBuggifiedDelayAnyStrategy(s, r) == (BuggifyFactor * r) \div 2
InitMaxBuggifiedDelay(s, r) ==
    IF s = "InOrder" THEN (BuggifyFactor * r) \div 2 ELSE 0

\* the number of draws the constructor makes on rand
CtorDraws(s) == IF s = "InOrder" THEN 1 ELSE 0

\* the number of draws delay() makes: none when max_buggified_delay is 0
\* (the && does not evaluate random01()), one when the first draw r1 is not
\* below 0.25, two otherwise
DelayDraws(mbd, r1) ==
    IF mbd > 0 THEN (IF LessThanQuarter(r1) THEN 2 ELSE 1) ELSE 0

\* the seconds that delay(seconds) enqueues: r1 is the first draw, p is the
\* value of pow(random01(), 1000.0) of the second draw, in halves
BuggifiedSeconds(seconds, mbd, r1, p) ==
    IF mbd > 0 /\ LessThanQuarter(r1)
    THEN seconds + (mbd * p) \div 2
    ELSE seconds

\* Task::operator>, on (t, stable) pairs
TaskGreaterNoTieBreak(lhs, rhs) == lhs.t > rhs.t
TaskGreater(lhs, rhs) ==
    \/ lhs.t > rhs.t
    \/ lhs.t = rhs.t /\ lhs.stable > rhs.stable

Swap(s, i, j) == [s EXCEPT ![i] = s[j], ![j] = s[i]]

\* std::push_heap(first, last, std::greater<Task>{}): the last element moves
\* up while its parent is greater
RECURSIVE SiftUp(_, _)
SiftUp(s, i) ==
    IF i > 1 /\ TaskGreater(s[i \div 2], s[i])
    THEN SiftUp(Swap(s, i, i \div 2), i \div 2)
    ELSE s

PushHeapNoSift(s) == s
PushHeap(s) == SiftUp(s, Len(s))

\* the sift-down of std::pop_heap over the first n elements
RECURSIVE SiftDown(_, _, _)
SiftDown(s, i, n) ==
    IF 2 * i > n THEN s
    ELSE LET l == 2 * i
             r == 2 * i + 1
             c == IF r <= n /\ TaskGreater(s[l], s[r]) THEN r ELSE l
         IN  IF TaskGreater(s[i], s[c])
             THEN SiftDown(Swap(s, i, c), c, n)
             ELSE s

\* std::pop_heap(first, last, std::greater<Task>{}): the front goes to the
\* back and the rest is a heap again
PopHeap(s) ==
    IF Len(s) <= 1 THEN s
    ELSE SiftDown(Swap(s, 1, Len(s)), 1, Len(s) - 1)

PopBackKeepsBack(s) == s
PopBack(s) == SubSeq(s, 1, Len(s) - 1)

\* std::max(a, b)
MaxNoMax(a, b) == a
Max(a, b) == IF a < b THEN b ELSE a

\* the condition of the while loop of run()
RunLoopCondIgnoresRunning(r, ts) == ts # <<>>
RunLoopCondLeavesLast(r, ts) == r /\ Len(ts) > 1
RunLoopCond(r, ts) == r /\ ts # <<>>

IsHeap(s) ==
    \A i \in 2..Len(s) : ~TaskGreater(s[i \div 2], s[i])

\* the draws made so far; they are counted when on is true
Draws(on, ctor, ctor01, delayDraws, runDraws) ==
    IF on
    THEN [on |-> TRUE, ctor |-> ctor, ctor01 |-> ctor01, delay |-> delayDraws,
          run |-> runDraws]
    ELSE [on |-> FALSE, ctor |-> 0, ctor01 |-> 0, delay |-> 0, run |-> 0]

\* the state after RandomSim(rand, s), for rand one of the given oracles
SchedInitWith(oracles, counted) ==
    /\ scheduling_strategy_ \in SchedulingStrategy
    /\ oracle \in oracles
    /\ \E r \in Random01Values(oracle) :
          /\ max_buggified_delay = InitMaxBuggifiedDelay(scheduling_strategy_, r)
          /\ draws = Draws(counted, CtorDraws(scheduling_strategy_),
                           IF CtorDraws(scheduling_strategy_) = 1 THEN r ELSE 0,
                           0, 0)
    /\ now_ = 0
    /\ tasks_ = <<>>
    /\ stable = 0
    /\ running = TRUE
    /\ pc = "main"
    /\ resumed = <<>>
    /\ enqueued = <<>>
    /\ negDelay = FALSE
    /\ runAfterStop = FALSE
    /\ stoppedIn = "none"

SchedInit == SchedInitWith({"FairRandom"}, FALSE)

SchedIdle ==
    /\ scheduling_strategy_ = "InOrder"
    /\ max_buggified_delay = 0
    /\ now_ = 0
    /\ tasks_ = <<>>
    /\ stable = 0
    /\ running = TRUE
    /\ pc = "off"
    /\ resumed = <<>>
    /\ enqueued = <<>>
    /\ negDelay = FALSE
    /\ runAfterStop = FALSE
    /\ stoppedIn = "none"
    /\ oracle = "FairRandom"
    /\ draws = Draws(FALSE, 0, 0, 0, 0)

\* RandomSim::delay(seconds), called by the code that set the simulation up
\* (pc = "main") or by a continuation that run() resumed (pc = "task")
delay(seconds) ==
    /\ pc \in {"main", "task"}
    /\ stable < (IF draws.on THEN MaxDrawTasks ELSE MaxTasks)
    /\ \E r1 \in Random01Values(oracle), p \in Random01Values(oracle) :
          LET secs == BuggifiedSeconds(seconds, max_buggified_delay, r1, p)
              task == [t |-> now_ + secs, stable |-> stable]
          IN  /\ tasks_' = IF scheduling_strategy_ = "InOrder"
                           THEN PushHeap(Append(tasks_, task))
                           ELSE Append(tasks_, task)
              /\ enqueued' = Append(enqueued, [t |-> task.t, stable |-> stable,
                                               d |-> seconds, at |-> now_,
                                               from |-> pc])
              /\ draws' = Draws(draws.on, draws.ctor, draws.ctor01,
                      draws.delay + DelayDraws(max_buggified_delay, r1),
                      draws.run)
    /\ stable' = stable + 1
    /\ negDelay' = (negDelay \/ seconds < 0)
    /\ UNCHANGED <<scheduling_strategy_, max_buggified_delay, now_, running,
                   pc, resumed, runAfterStop, stoppedIn, oracle>>
    /\ UNCHANGED codecVars
    /\ UNCHANGED workloadVars
    /\ UNCHANGED quorumVars

\* RandomSim::stop()
stop ==
    /\ pc \in {"main", "task"}
    /\ running' = FALSE
    /\ stoppedIn' = IF stoppedIn = "none" THEN pc ELSE stoppedIn
    /\ UNCHANGED <<scheduling_strategy_, max_buggified_delay, now_, tasks_,
                   stable, pc, resumed, enqueued, negDelay, runAfterStop,
                   oracle, draws>>
    /\ UNCHANGED codecVars
    /\ UNCHANGED workloadVars
    /\ UNCHANGED quorumVars

\* a call of RandomSim::run()
run ==
    /\ pc = "main"
    /\ pc' = "run"
    /\ runAfterStop' = (runAfterStop \/ ~running)
    /\ UNCHANGED <<scheduling_strategy_, max_buggified_delay, now_, tasks_,
                   stable, running, resumed, enqueued, negDelay, stoppedIn,
                   oracle, draws>>
    /\ UNCHANGED codecVars
    /\ UNCHANGED workloadVars
    /\ UNCHANGED quorumVars

\* one iteration of the loop of run() up to task.p.send(Void()): the
\* continuation that waits for the task is now running
\* hi is the maxPlusOne of the randomInt(0, maxPlusOne) draw that picked the
\* task, 0 when no draw was made
Dispatch(task, rest, hi) ==
    /\ tasks_' = rest
    /\ now_' = Max(task.t, now_)
    /\ resumed' = Append(resumed, [t |-> task.t, stable |-> task.stable,
                                   now |-> now_', hi |-> hi,
                                   pending |-> Len(tasks_)])
    /\ draws' = Draws(draws.on, draws.ctor, draws.ctor01, draws.delay,
                      draws.run + (IF hi > 0 THEN 1 ELSE 0))
    /\ pc' = "task"
    /\ UNCHANGED <<scheduling_strategy_, max_buggified_delay, stable, running,
                   enqueued, negDelay, runAfterStop, stoppedIn, oracle>>
    /\ UNCHANGED codecVars
    /\ UNCHANGED workloadVars
    /\ UNCHANGED quorumVars

runInOrder ==
    /\ pc = "run"
    /\ RunLoopCond(running, tasks_)
    /\ scheduling_strategy_ = "InOrder"
    /\ Dispatch(tasks_[1], PopBack(PopHeap(tasks_)), 0)

runRandomOrder ==
    /\ pc = "run"
    /\ RunLoopCond(running, tasks_)
    /\ scheduling_strategy_ = "RandomOrder"
    /\ \E i \in 1..Len(tasks_) :
          LET swapped == Swap(tasks_, i, Len(tasks_))
          IN  Dispatch(swapped[Len(swapped)], PopBack(swapped), Len(tasks_))

\* the resumed continuation reaches its next suspension point (or ends) and
\* send() returns to the loop of run()
suspend ==
    /\ pc = "task"
    /\ pc' = "run"
    /\ UNCHANGED <<scheduling_strategy_, max_buggified_delay, now_, tasks_,
                   stable, running, resumed, enqueued, negDelay, runAfterStop,
                   stoppedIn, oracle, draws>>
    /\ UNCHANGED codecVars
    /\ UNCHANGED workloadVars
    /\ UNCHANGED quorumVars

\* the loop condition of run() is false: run() returns
runReturn ==
    /\ pc = "run"
    /\ ~RunLoopCond(running, tasks_)
    /\ pc' = "main"
    /\ UNCHANGED <<scheduling_strategy_, max_buggified_delay, now_, tasks_,
                   stable, running, resumed, enqueued, negDelay, runAfterStop,
                   stoppedIn, oracle, draws>>
    /\ UNCHANGED codecVars
    /\ UNCHANGED workloadVars
    /\ UNCHANGED quorumVars

\* a draw made on ReplayRandomBytes: size bytes asked of consumeBytes when
\* had bytes remained, and whether EndSimulation was thrown
Attempt(kind, min, max_plus_one, size, had, threw) ==
    [kind |-> kind, min |-> min, max_plus_one |-> max_plus_one,
     size |-> size, had |-> had, threw |-> threw]

NoAttempt == Attempt("none", 0, 1, 0, 0, FALSE)

CodecIdle ==
    /\ mode = "off"
    /\ cpc = "off"
    /\ rec_bytes = <<>>
    /\ rep_bytes = <<>>
    /\ calls = <<>>
    /\ results = <<>>
    /\ rep_input = <<>>
    /\ attempt = NoAttempt

\* no ExampleService and no client exists
WorkloadIdle ==
    /\ elements = <<>>
    /\ actors = <<>>
    /\ started = 0
    /\ interleaved = FALSE
    /\ sharedOverlap = FALSE

\* quorumEqualsTrue is not called
QuorumIdle ==
    /\ futures = <<>>
    /\ required = 0
    /\ qpc = "off"
    /\ qresult = <<>>
    /\ qfutures = <<>>

Init == SchedInit /\ CodecIdle /\ WorkloadIdle /\ QuorumIdle

Next ==
    \/ \E d \in Delays : delay(d)
    \/ stop
    \/ run
    \/ runInOrder
    \/ runRandomOrder
    \/ suspend
    \/ runReturn

Spec == Init /\ [][Next]_vars

\* the scheduler on either oracle, with its draws counted
InitDraws == SchedInitWith(Oracles, TRUE) /\ CodecIdle /\ WorkloadIdle
             /\ QuorumIdle

SpecDraws == InitDraws /\ [][Next]_vars

----------------------------------------------------------------------------
(* The byte encoding of draws: RecordRandomBytes and ReplayRandomBytes *)

\* the recording and the replay make at most MaxCalls draws
MaxCalls == 2

\* a fuzz input of ReplayRandomBytes has at most MaxFuzzBytes bytes
MaxFuzzBytes == 4

\* the byte values of the fuzz inputs
ByteVals == {0, 1, 128, 255}

\* the sequences over S of length n
RECURSIVE SeqsOfLen(_, _)
SeqsOfLen(S, n) ==
    IF n = 0 THEN {<<>>}
    ELSE {Append(q, b) : q \in SeqsOfLen(S, n - 1), b \in S}

FuzzInputs == UNION {SeqsOfLen(ByteVals, n) : n \in 0..MaxFuzzBytes}

\* the <<min, max_plus_one>> arguments of randomInt(): ranges of 1, 100,
\* 255, 256, 257, 10000 (kSize), 65536, 65537 and 2^24 values
IntRanges ==
    {<<0, 1>>, <<0, 100>>, <<0, 255>>, <<0, 256>>, <<-3, 253>>, <<0, 257>>,
     <<0, 10000>>, <<7, 65543>>, <<0, 65537>>, <<0, 16777216>>}

\* the results in [min, max_plus_one) that the inner oracle returns
InnerInts(min, max_plus_one) ==
    {x \in {min, min + 1, min + 255, min + 256, min + 65535, min + 65536,
            max_plus_one - 1} : min <= x /\ x < max_plus_one}

\* the results in [0, 1) that the inner oracle returns, in sixteenths:
\* 0, 1/16, 1/4, 1/2 and 15/16, each an exact double
InnerSixteenths == {0, 1, 4, 8, 15}

\* bytesRequired(denom), for denom > 0
RECURSIVE bytesRequiredOfPredecessor(_)
bytesRequiredOfPredecessor(denom) ==
    IF denom > 1 THEN 1 + bytesRequiredOfPredecessor((denom + 255) \div 256)
    ELSE 0
RECURSIVE bytesRequired(_)
bytesRequired(denom) ==
    IF denom > 0 THEN 1 + bytesRequired(denom \div 256) ELSE 0

\* the first size bytes of the object representation of a non-negative
\* int64 or uint32 on a little-endian machine
RECURSIVE ObjectBytes(_, _)
ObjectBytes(value, size) ==
    IF size = 0 THEN <<>>
    ELSE <<value % 256>> \o ObjectBytes(value \div 256, size - 1)

\* memcpy(&numerator, b, size) into a zeroed int64: the value of numerator
RECURSIVE MemcpyBigEndian(_)
MemcpyBigEndian(b) ==
    IF b = <<>> THEN 0
    ELSE b[Len(b)] + 256 * MemcpyBigEndian(SubSeq(b, 1, Len(b) - 1))
RECURSIVE MemcpyToInt64(_)
MemcpyToInt64(b) ==
    IF b = <<>> THEN 0 ELSE Head(b) + 256 * MemcpyToInt64(Tail(b))

\* std::clamp(v, lo, hi)
ClampToUpperPlusOne(v, lo, hi) == IF v < lo THEN lo ELSE IF hi + 1 < v THEN hi + 1 ELSE v
Clamp(v, lo, hi) == IF v < lo THEN lo ELSE IF hi < v THEN hi ELSE v

\* Numbers beyond 2^31 are little-endian sequences of base-256 digits: the
\* bytes of a uint32 are such a number.

\* std::numeric_limits<uint32_t>::max()
Uint32Max == <<255, 255, 255, 255>>

\* s * m + carry, for a small m
RECURSIVE BigMulSmall(_, _, _)
BigMulSmall(s, m, carry) ==
    IF s = <<>>
    THEN IF carry = 0 THEN <<>>
         ELSE <<carry % 256>> \o BigMulSmall(<<>>, m, carry \div 256)
    ELSE LET v == Head(s) * m + carry
         IN  <<v % 256>> \o BigMulSmall(Tail(s), m, v \div 256)

\* the quotient q and the remainder r of s by a small d
RECURSIVE BigDivSmall(_, _)
BigDivSmall(s, d) ==
    IF s = <<>> THEN [q |-> <<>>, r |-> 0]
    ELSE LET hi  == BigDivSmall(Tail(s), d)
             cur == hi.r * 256 + Head(s)
         IN  [q |-> <<cur \div d>> \o hi.q, r |-> cur % d]

\* static_cast<uint32_t>(result * static_cast<double>(max)) for the double
\* result = n/16: the product is exact in a double and the cast truncates
Random01ToUint32(n) ==
    SubSeq(BigDivSmall(BigMulSmall(Uint32Max, n, 0), 16).q, 1, 4)

\* ReplayRandomBytes::consumeBytes(size)
consumeBytesNeedsOneMore(b, size) ==
    IF Len(b) > size
    THEN [ok |-> TRUE, result |-> SubSeq(b, 1, size),
          rest |-> SubSeq(b, size + 1, Len(b))]
    ELSE [ok |-> FALSE, result |-> <<>>, rest |-> b]
consumeBytes(b, size) ==
    IF Len(b) >= size
    THEN [ok |-> TRUE, result |-> SubSeq(b, 1, size),
          rest |-> SubSeq(b, size + 1, Len(b))]
    ELSE [ok |-> FALSE, result |-> <<>>, rest |-> b]

\* an entry of calls (a draw recorded) or of results (a draw replayed)
Draw(kind, min, max_plus_one, value, num, den, raw) ==
    [kind |-> kind, min |-> min, max_plus_one |-> max_plus_one,
     value |-> value, num |-> num, den |-> den, raw |-> raw]

CodecInit ==
    /\ calls = <<>>
    /\ results = <<>>
    /\ rec_bytes = <<>>
    /\ attempt = NoAttempt
    /\ \/ mode = "roundtrip" /\ cpc = "record" /\ rep_bytes = <<>>
       \/ mode = "fuzz" /\ cpc = "replay" /\ rep_bytes \in FuzzInputs
    /\ rep_input = rep_bytes

\* RecordRandomBytes::randomInt(min, max_plus_one), the inner oracle
\* returning r
RecordRandomInt(min, max_plus_one, r) ==
    /\ mode = "roundtrip" /\ cpc = "record"
    /\ Len(calls) < MaxCalls
    /\ LET result    == r - min
           appended  == ObjectBytes(result, bytesRequired(max_plus_one - min))
       IN  /\ rec_bytes' = rec_bytes \o appended
           /\ calls' = Append(calls, Draw("int", min, max_plus_one,
                                          result + min, <<>>, <<>>, appended))
    /\ UNCHANGED <<mode, cpc, rep_bytes, results, rep_input, attempt>>
    /\ UNCHANGED schedVars
    /\ UNCHANGED workloadVars
    /\ UNCHANGED quorumVars

\* RecordRandomBytes::random01(), the inner oracle returning n/16
RecordRandom01(n) ==
    /\ mode = "roundtrip" /\ cpc = "record"
    /\ Len(calls) < MaxCalls
    /\ LET u == Random01ToUint32(n)
       IN  /\ rec_bytes' = rec_bytes \o u
           /\ calls' = Append(calls, Draw("01", 0, 1, 0, <<n>>, <<16>>, u))
    /\ UNCHANGED <<mode, cpc, rep_bytes, results, rep_input, attempt>>
    /\ UNCHANGED schedVars
    /\ UNCHANGED workloadVars
    /\ UNCHANGED quorumVars

\* the recorded bytes are given to a ReplayRandomBytes
StartReplay ==
    /\ mode = "roundtrip" /\ cpc = "record"
    /\ cpc' = "replay"
    /\ rep_bytes' = rec_bytes
    /\ rep_input' = rec_bytes
    /\ UNCHANGED <<mode, rec_bytes, calls, results, attempt>>
    /\ UNCHANGED schedVars
    /\ UNCHANGED workloadVars
    /\ UNCHANGED quorumVars

\* the next draw of the replay: any draw on a fuzz input, the draw that was
\* recorded at this position on recorded bytes
NextDrawIs(kind, min, max_plus_one) ==
    /\ cpc = "replay"
    /\ Len(results) < MaxCalls
    /\ \/ mode = "fuzz" /\ bytesRequired(max_plus_one - min) <= 3
       \/ /\ mode = "roundtrip"
          /\ Len(results) < Len(calls)
          /\ calls[Len(results) + 1].kind = kind
          /\ calls[Len(results) + 1].min = min
          /\ calls[Len(results) + 1].max_plus_one = max_plus_one

\* ReplayRandomBytes::randomInt(min, max_plus_one)
ReplayRandomInt(min, max_plus_one) ==
    /\ NextDrawIs("int", min, max_plus_one)
    /\ LET min64          == min
           max_plus_one64 == max_plus_one
           size == bytesRequired(max_plus_one64 - min64)
           c == consumeBytes(rep_bytes, size)
           numerator == MemcpyToInt64(c.result)
       IN  /\ attempt' = Attempt("int", min, max_plus_one, size,
                                 Len(rep_bytes), ~c.ok)
           /\ IF c.ok
              THEN /\ rep_bytes' = c.rest
                   /\ results' = Append(results,
                          Draw("int", min, max_plus_one,
                               Clamp(min64 + numerator, min64, max_plus_one64 - 1),
                               <<>>, <<>>, c.result))
                   /\ cpc' = cpc
              ELSE /\ cpc' = "EndSimulation"
                   /\ UNCHANGED <<rep_bytes, results>>
    /\ UNCHANGED <<mode, rec_bytes, calls, rep_input>>
    /\ UNCHANGED schedVars
    /\ UNCHANGED workloadVars
    /\ UNCHANGED quorumVars

\* ReplayRandomBytes::random01(): the double returned is num/den
ReplayRandom01 ==
    /\ NextDrawIs("01", 0, 1)
    /\ LET c == consumeBytes(rep_bytes, 4)
       IN  /\ attempt' = Attempt("01", 0, 1, 4, Len(rep_bytes), ~c.ok)
           /\ IF c.ok
              THEN /\ rep_bytes' = c.rest
                   /\ results' = Append(results,
                          Draw("01", 0, 1, 0, c.result, Uint32Max, c.result))
                   /\ cpc' = cpc
              ELSE /\ cpc' = "EndSimulation"
                   /\ UNCHANGED <<rep_bytes, results>>
    /\ UNCHANGED <<mode, rec_bytes, calls, rep_input>>
    /\ UNCHANGED schedVars
    /\ UNCHANGED workloadVars
    /\ UNCHANGED quorumVars

InitCodec == CodecInit /\ SchedIdle /\ WorkloadIdle /\ QuorumIdle

NextCodec ==
    \/ \E rg \in IntRanges : \E r \in InnerInts(rg[1], rg[2]) :
          RecordRandomInt(rg[1], rg[2], r)
    \/ \E n \in InnerSixteenths : RecordRandom01(n)
    \/ StartReplay
    \/ \E rg \in IntRanges : ReplayRandomInt(rg[1], rg[2])
    \/ ReplayRandom01

SpecCodec == InitCodec /\ [][NextCodec]_vars

----------------------------------------------------------------------------
(* The example workload: ExampleService, poisson, client, clients,         *)
(* stopAfterSeconds and runSimulation.  A step of the workload is a call   *)
(* that runSimulation makes, or one iteration of the loop of run()         *)
(* together with the continuation it resumes, which runs without           *)
(* interruption up to its next wait.                                       *)

\* the number of clients that clients() starts (five in the source)
NumClients == 2

\* ExampleService::kSize (10000 in the source)
kSize == 3

\* run() resumes at most MaxDispatches tasks in a behaviour
MaxDispatches == 5

\* the fuzz input has at most MaxReplayBytes bytes
MaxReplayBytes == 16

\* 100.0 seconds, in ticks
StopAfter == 2000

\* the maxPlusOne of the draw randomInt(0, 100) of client
CheckOneIn == 100

\* the values of meanInterval * -log(random01()), in ticks
PoissonIncrements == {1, 3}

\* the draws (r1, pw) that delay() makes: none when max_buggified_delay is
\* 0, and no second draw when the first is not below 0.25
DelayDrawValues ==
    IF max_buggified_delay > 0
    THEN {<<r1, pw>> \in Random01Values(oracle) \X Random01Values(oracle) :
             LessThanQuarter(r1) \/ pw = 0}
    ELSE {<<0, 0>>}

\* the (i, j) that sampleDistinctOrderedPair(sim, size) can return
DistinctOrderedPairs(size) ==
    {ij \in (0..(size - 2)) \X (1..(size - 1)) : ij[1] < ij[2]}

\* the state of a client: the wait it is suspended in, its lastTime and
\* the state variables i, j, x, y of the swap_ it waits for
ClientState(at, lastTime, i, j, x, y) ==
    [at |-> at, lastTime |-> lastTime, i |-> i, j |-> j, x |-> x, y |-> y]

\* the Task that delay() pushes; p is the actor that waits for the promise
\* (0 is stopAfterSeconds, c >= 1 is the c-th client)
Task(p, t, s) == [p |-> p, t |-> t, stable |-> s]

\* the state a step starts from; status is "ok" until the step throws
\* EndSimulation or aborts
Here ==
    [now |-> now_, tasks |-> tasks_, stable |-> stable, running |-> running,
     actors |-> actors, elements |-> elements, bytes |-> rep_bytes,
     attempt |-> attempt, status |-> "ok", neg |-> negDelay,
     inter |-> interleaved, shared |-> sharedOverlap]

\* a draw on rand_ made at site: FairRandom always answers,
\* ReplayRandomBytes answers when consumeBytes(size) has the bytes and
\* throws EndSimulation otherwise
ConsumeWithoutEnd(m, site, size) == m
Consume(m, site, size) ==
    IF m.status # "ok" \/ oracle = "FairRandom" THEN m
    ELSE LET c == consumeBytes(m.bytes, size)
         IN  [m EXCEPT !.bytes = c.rest,
                       !.attempt = Attempt(site, 0, 0, size, Len(m.bytes), ~c.ok),
                       !.status = IF c.ok THEN "ok" ELSE "EndSimulation"]

\* RandomSim::delay(seconds) called by actor p, with the draws r1 and pw of
\* BuggifiedSeconds
SimDelay(m, p, seconds, r1, pw) ==
    LET m1 == IF max_buggified_delay > 0
              THEN Consume(m, "RandomSim::delay", 4) ELSE m
        m2 == IF max_buggified_delay > 0 /\ LessThanQuarter(r1)
              THEN Consume(m1, "RandomSim::delay", 4) ELSE m1
        secs == BuggifiedSeconds(seconds, max_buggified_delay, r1, pw)
        task == Task(p, m.now + secs, m.stable)
    IN  IF m2.status # "ok" THEN m2
        ELSE [m2 EXCEPT !.tasks = IF scheduling_strategy_ = "InOrder"
                                  THEN PushHeap(Append(@, task))
                                  ELSE Append(@, task),
                        !.stable = @ + 1,
                        !.neg = @ \/ seconds < 0]

\* poisson(sim, &lastTime, 1) called by client c up to its wait; inc is the
\* value of meanInterval * -log(sim->random01())
poisson(m, c, inc, r1, pw) ==
    LET m1 == Consume(m, "poisson", 4)
        last == m.actors[c].lastTime + inc
        m2 == [m1 EXCEPT !.actors[c] = ClientState("poisson", last, 0, 0, 0, 0)]
    IN  IF m1.status # "ok" THEN m1
        ELSE SimDelay(m2, c, last - m2.now, r1, pw)

\* std::sort(copy.begin(), copy.end())
RECURSIVE Sort(_)
Sort(s) ==
    IF s = <<>> THEN <<>>
    ELSE LET k == CHOOSE k \in 1..Len(s) :
                      \A l \in 1..Len(s) : s[k] < s[l] \/ (s[k] = s[l] /\ k <= l)
         IN  <<s[k]>> \o Sort(SubSeq(s, 1, k - 1) \o SubSeq(s, k + 1, Len(s)))

\* ExampleService::checkInvariant(): whether every ASSERT_ABORT passes
checkInvariantAlwaysPasses(e) == TRUE
checkInvariant(e) ==
    LET copy == Sort(e)
    IN  \A i \in 0..(Len(copy) - 1) : copy[i + 1] = i

\* the elements after the two writes of swap_: elements[i] = y,
\* elements[j] = x
SwapWritesOne(e, i, j, x, y) == [e EXCEPT ![i + 1] = y]
SwapWrites(e, i, j, x, y) == [e EXCEPT ![i + 1] = y, ![j + 1] = x]

\* the clients other than c whose swap_ has read and not yet written
InSwap(m, c) == {d \in 1..Len(m.actors) : d # c /\ m.actors[d].at = "swap"}

\* client c resumes from its wait on poisson: the draw randomInt(0, 100)
\* chooses checkInvariant() (isCheck) or swap(i, j), which reads its two
\* slots and waits on delay(0)
clientAfterPoisson(m, c, isCheck, i, j, inc, r1, pw) ==
    LET m1 == Consume(m, "client", bytesRequired(CheckOneIn - 0))
        m2 == Consume(m1, "sampleDistinctOrderedPair", bytesRequired((kSize - 1) - 0))
        m3 == Consume(m2, "sampleDistinctOrderedPair", bytesRequired(kSize - (i + 1)))
        m4 == [m3 EXCEPT
                 !.actors[c] = ClientState("swap", @.lastTime, i, j,
                                           m.elements[i + 1], m.elements[j + 1]),
                 !.inter = @ \/ InSwap(m, c) # {},
                 !.shared = @ \/ \E d \in InSwap(m, c) :
                                    {i, j} \cap {m.actors[d].i, m.actors[d].j} # {}]
    IN  IF m1.status # "ok" THEN m1
        ELSE IF isCheck
        THEN IF checkInvariant(m1.elements)
             THEN poisson(m1, c, inc, r1, pw)
             ELSE [m1 EXCEPT !.status = "abort"]
        ELSE IF m3.status # "ok" THEN m3
        ELSE SimDelay(m4, c, 0, r1, pw)

\* client c resumes from the wait of swap_ on delay(0): swap_ writes its
\* two slots and returns, and the loop of client calls poisson again
clientAfterSwap(m, c, inc, r1, pw) ==
    LET a == m.actors[c]
        m1 == [m EXCEPT !.elements = SwapWrites(@, a.i, a.j, a.x, a.y)]
    IN  poisson(m1, c, inc, r1, pw)

\* stopAfterSeconds resumes from its wait: sim->stop()
stopAfterSecondsNeverStops(m) == m
stopAfterSecondsAfterDelay(m) == [m EXCEPT !.running = FALSE]

\* what leaves task.p.send(Void()) and run() when the resumed actor ends
\* with status: an exception thrown in the actor propagates
OutOfActor(status) == status

\* the catch of runSimulation: EndSimulation is caught and runSimulation
\* returns; nothing else is caught
CatchNothing(thrown) == "terminate"
Catch(thrown) == IF thrown = "EndSimulation" THEN "returned" ELSE "terminate"

\* the state after a step that ended in m; next is where control is when
\* the step neither threw nor aborted
Commit(m, next) ==
    /\ now_' = m.now
    /\ tasks_' = m.tasks
    /\ stable' = m.stable
    /\ running' = m.running
    /\ actors' = m.actors
    /\ elements' = m.elements
    /\ rep_bytes' = m.bytes
    /\ attempt' = m.attempt
    /\ negDelay' = m.neg
    /\ interleaved' = m.inter
    /\ sharedOverlap' = m.shared
    /\ pc' = IF m.status = "ok" THEN next ELSE m.status
    /\ UNCHANGED <<scheduling_strategy_, max_buggified_delay, enqueued,
                   runAfterStop, stoppedIn, oracle, draws, mode, cpc,
                   rec_bytes, calls, results, rep_input>>
    /\ UNCHANGED quorumVars

\* the fuzz inputs of the workload: the values of the bytes are not kept,
\* the actions choose the value of each draw
ReplayInputs == {[k \in 1..n |-> 0] : n \in 0..MaxReplayBytes}

\* the state after RandomSim sim{ random, s } and ExampleService
\* service{ &sim } in runSimulation: s is RandomOrder as in the source, on
\* either oracle, or InOrder on a FairRandom whose constructor draw is 0.0
\* (the workload is not run with buggified delays)
WorkloadInit ==
    /\ scheduling_strategy_ \in SchedulingStrategy
    /\ oracle \in Oracles
    /\ \/ /\ oracle = "FairRandom"
          /\ rep_input = <<>>
       \/ /\ oracle = "ReplayRandomBytes"
          /\ scheduling_strategy_ = "RandomOrder"
          /\ rep_input \in ReplayInputs
    /\ rep_bytes = rep_input
    /\ max_buggified_delay = InitMaxBuggifiedDelay(scheduling_strategy_, 0)
    /\ draws = Draws(FALSE, 0, 0, 0, 0)
    /\ now_ = 0
    /\ tasks_ = <<>>
    /\ stable = 0
    /\ running = TRUE
    /\ pc = "main"
    /\ resumed = <<>>
    /\ enqueued = <<>>
    /\ negDelay = FALSE
    /\ runAfterStop = FALSE
    /\ stoppedIn = "none"
    /\ mode = "off"
    /\ cpc = "off"
    /\ rec_bytes = <<>>
    /\ calls = <<>>
    /\ results = <<>>
    /\ attempt = NoAttempt
    /\ elements = [i \in 1..kSize |-> i - 1]
    /\ actors = <<>>
    /\ started = 0
    /\ interleaved = FALSE
    /\ sharedOverlap = FALSE
    /\ QuorumIdle

\* clients(): actors.add(client(sim, service)); the client runs up to the
\* wait of its first poisson
startClient ==
    /\ pc = "main"
    /\ started < NumClients
    /\ started' = started + 1
    /\ resumed' = resumed
    /\ \E inc \in PoissonIncrements, dd \in DelayDrawValues :
       \E m \in {[Here EXCEPT
                    !.actors = Append(@, ClientState("start", now_, 0, 0, 0, 0))]} :
       \E after \in {poisson(m, started + 1, inc, dd[1], dd[2])} :
          Commit([after EXCEPT !.status = OutOfActor(@)], "main")

\* stopAfterSeconds(&sim, 100.0) up to its wait
startStopAfterSeconds ==
    /\ pc = "main"
    /\ started = NumClients
    /\ started' = started + 1
    /\ resumed' = resumed
    /\ \E dd \in DelayDrawValues :
       \E after \in {SimDelay(Here, 0, StopAfter, dd[1], dd[2])} :
          Commit([after EXCEPT !.status = OutOfActor(@)], "main")

\* sim.run() is called
simRun ==
    /\ pc = "main"
    /\ started = NumClients + 1
    /\ pc' = "run"
    /\ UNCHANGED <<scheduling_strategy_, max_buggified_delay, now_, tasks_,
                   stable, running, resumed, enqueued, negDelay, runAfterStop,
                   stoppedIn, oracle, draws>>
    /\ UNCHANGED codecVars
    /\ UNCHANGED workloadVars
    /\ UNCHANGED quorumVars

\* the task that the loop of run() takes from tasks_ and the state when it
\* calls task.p.send(Void()); k is the value of randomInt(0, tasks_.size())
Take(m, k) ==
    IF scheduling_strategy_ = "InOrder"
    THEN [task |-> m.tasks[1],
          m |-> [m EXCEPT !.tasks = PopBack(PopHeap(@)),
                          !.now = Max(m.tasks[1].t, @)]]
    ELSE LET m1 == Consume(m, "RandomSim::run", bytesRequired(Len(m.tasks) - 0))
             swapped == Swap(m.tasks, k + 1, Len(m.tasks))
             task == swapped[Len(swapped)]
         IN  [task |-> task,
              m |-> IF m1.status # "ok" THEN m1
                    ELSE [m1 EXCEPT !.tasks = PopBack(swapped),
                                    !.now = Max(task.t, @)]]

\* the draws that the continuation of the actor waiting for task makes
\* before it suspends: isCheck is randomInt(0, 100) == 0, ij the pair of
\* sampleDistinctOrderedPair, inc the increment of poisson, dd the draws of
\* delay(); a draw that is not made is not enumerated
ResumeDraws(m, task) ==
    LET atPoisson == task.p # 0 /\ m.actors[task.p].at = "poisson"
        atSwap == task.p # 0 /\ m.actors[task.p].at = "swap"
    IN  {d \in [isCheck : BOOLEAN, ij : DistinctOrderedPairs(kSize),
                inc : PoissonIncrements, dd : DelayDrawValues] :
            /\ ~atPoisson => ~d.isCheck
            /\ ~(atPoisson /\ ~d.isCheck) => d.ij = <<0, 1>>
            /\ ~(atSwap \/ d.isCheck) => d.inc = 1
            /\ task.p = 0 => d.dd = <<0, 0>>}

\* the continuation of the actor that waits for task
Resume(m, task, d) ==
    IF task.p = 0 THEN stopAfterSecondsAfterDelay(m)
    ELSE IF m.actors[task.p].at = "poisson"
    THEN clientAfterPoisson(m, task.p, d.isCheck, d.ij[1], d.ij[2], d.inc,
                            d.dd[1], d.dd[2])
    ELSE clientAfterSwap(m, task.p, d.inc, d.dd[1], d.dd[2])

\* one iteration of the loop of run()
simDispatch ==
    /\ pc = "run"
    /\ RunLoopCond(running, tasks_)
    /\ Len(resumed) < MaxDispatches
    /\ started' = started
    /\ \E k \in 0..(IF scheduling_strategy_ = "InOrder" THEN 0
                     ELSE Len(tasks_) - 1) :
       \E taken \in {Take(Here, k)} :
              IF taken.m.status # "ok"
              THEN /\ Commit(taken.m, "run")
                   /\ resumed' = resumed
              ELSE \E d \in ResumeDraws(taken.m, taken.task) :
                   \E after \in {Resume(taken.m, taken.task, d)} :
                       /\ Commit([after EXCEPT !.status = OutOfActor(@)], "run")
                       /\ resumed' = Append(resumed,
                              [p |-> taken.task.p, t |-> taken.task.t,
                               stable |-> taken.task.stable,
                               now |-> taken.m.now])

\* the loop condition of run() is false: run() and runSimulation return
simRunReturn ==
    /\ pc = "run"
    /\ ~RunLoopCond(running, tasks_)
    /\ pc' = "returned"
    /\ UNCHANGED <<scheduling_strategy_, max_buggified_delay, now_, tasks_,
                   stable, running, resumed, enqueued, negDelay, runAfterStop,
                   stoppedIn, oracle, draws>>
    /\ UNCHANGED codecVars
    /\ UNCHANGED workloadVars
    /\ UNCHANGED quorumVars

\* EndSimulation reaches the try block of runSimulation
runSimulationCatch ==
    /\ pc = "EndSimulation"
    /\ pc' = Catch(pc)
    /\ UNCHANGED <<scheduling_strategy_, max_buggified_delay, now_, tasks_,
                   stable, running, resumed, enqueued, negDelay, runAfterStop,
                   stoppedIn, oracle, draws>>
    /\ UNCHANGED codecVars
    /\ UNCHANGED workloadVars
    /\ UNCHANGED quorumVars

NextWorkload ==
    \/ startClient
    \/ startStopAfterSeconds
    \/ simRun
    \/ simDispatch
    \/ simRunReturn
    \/ runSimulationCatch

SpecWorkload == WorkloadInit /\ [][NextWorkload]_vars

\* fuzz mode: LLVMFuzzerTestOneInput gives runSimulation a ReplayRandomBytes
\* over its input
FuzzInit == WorkloadInit /\ oracle = "ReplayRandomBytes"

\* runSimulation runs on one thread and nothing suspends it: while it has a
\* next step, it takes it
SpecFuzz == FuzzInit /\ [][NextWorkload]_vars /\ WF_vars(NextWorkload)

----------------------------------------------------------------------------
(* The stop-after scenario: stopAfterSeconds(&sim, 10.0) and a periodic    *)
(* task that awaits delay(1) again and again, on a scheduler of either     *)
(* strategy.                                                               *)

\* the periodic task is resumed at most MaxPeriodic times in a behaviour
MaxPeriodic == 12

\* 10 seconds and 1 second, in ticks
TenSeconds == 200
OneSecond == 20

\* the number of resumptions of actor p
Resumptions(p) == Cardinality({n \in 1..Len(resumed) : resumed[n].p = p})

\* the periodic task (actor 1) resumes from its wait and awaits delay(1)
periodicAfterDelay(m, dd) == SimDelay(m, 1, OneSecond, dd[1], dd[2])

\* stopAfterSeconds(&sim, 10.0) up to its wait
scheduleStopAfter ==
    /\ pc = "main"
    /\ started = 0
    /\ started' = 1
    /\ resumed' = resumed
    /\ \E dd \in DelayDrawValues :
          Commit(SimDelay(Here, 0, TenSeconds, dd[1], dd[2]), "main")

\* the periodic task up to its first wait
schedulePeriodic ==
    /\ pc = "main"
    /\ started = 1
    /\ started' = 2
    /\ resumed' = resumed
    /\ \E dd \in DelayDrawValues :
          Commit(periodicAfterDelay(Here, dd), "main")

\* sim.run() is called
scenarioRun ==
    /\ pc = "main"
    /\ started = 2
    /\ pc' = "run"
    /\ UNCHANGED <<scheduling_strategy_, max_buggified_delay, now_, tasks_,
                   stable, running, resumed, enqueued, negDelay, runAfterStop,
                   stoppedIn, oracle, draws>>
    /\ UNCHANGED codecVars
    /\ UNCHANGED workloadVars
    /\ UNCHANGED quorumVars

\* one iteration of the loop of run()
scenarioDispatch ==
    /\ pc = "run"
    /\ RunLoopCond(running, tasks_)
    /\ Resumptions(1) < MaxPeriodic
    /\ started' = started
    /\ \E k \in 0..(IF scheduling_strategy_ = "InOrder" THEN 0
                     ELSE Len(tasks_) - 1) :
          LET taken == Take(Here, k)
          IN  /\ resumed' = Append(resumed,
                     [p |-> taken.task.p, t |-> taken.task.t,
                      stable |-> taken.task.stable, now |-> taken.m.now])
              /\ IF taken.task.p = 0
                 THEN Commit(stopAfterSecondsAfterDelay(taken.m), "run")
                 ELSE \E dd \in DelayDrawValues :
                         Commit(periodicAfterDelay(taken.m, dd), "run")

NextStopAfter ==
    \/ scheduleStopAfter
    \/ schedulePeriodic
    \/ scenarioRun
    \/ scenarioDispatch
    \/ simRunReturn

SpecStopAfter == Init /\ [][NextStopAfter]_vars

----------------------------------------------------------------------------
(* Properties of the scheduler *)

\* the heap that InOrder keeps: tasks_ is a heap under Task::operator>
TasksIsHeap == scheduling_strategy_ = "InOrder" => IsHeap(tasks_)

\* (t, stable) of a is lexicographically at most (t, stable) of b
LexLeq(a, b) == a.t < b.t \/ (a.t = b.t /\ a.stable <= b.stable)

\* C1: virtual time never goes backwards: no step of the scheduler, under
\* either strategy and for any delay argument, makes now smaller than it was
C1_NowNeverDecreases == [][now_' >= now_]_vars

\* C1 witness: under RandomOrder a task whose deadline is in the past was
\* dispatched after a task with a later deadline, and now stayed where it was
C1_Witness ==
    /\ scheduling_strategy_ = "RandomOrder"
    /\ \E i \in 1..Len(resumed) : \E j \in 1..Len(resumed) :
          /\ i < j
          /\ resumed[j].t < resumed[i].t
          /\ resumed[j].now = resumed[i].now
          /\ resumed[i].now > 0

\* C2: under InOrder with every delay argument >= 0, tasks are resumed in
\* non-decreasing (deadline, sequence) order, and now at each dispatch is the
\* deadline of the dispatched task
C2_InOrderResumesSorted ==
    (scheduling_strategy_ = "InOrder" /\ ~negDelay) =>
        /\ \A i \in 1..Len(resumed) : resumed[i].now = resumed[i].t
        /\ \A i \in 1..Len(resumed) : \A j \in 1..Len(resumed) :
              i < j => LexLeq(resumed[i], resumed[j])

\* C2 witness: three tasks were resumed in order under InOrder, the last of
\* them enqueued by a resumed task during the run, with a buggified deadline
\* among the enqueued tasks
C2_Witness ==
    /\ scheduling_strategy_ = "InOrder"
    /\ ~negDelay
    /\ Len(resumed) >= 3
    /\ resumed[1].t > 0
    /\ \E k \in 1..Len(enqueued) :
          /\ enqueued[k].from = "task"
          /\ enqueued[k].stable = resumed[Len(resumed)].stable
    /\ \E k \in 1..Len(enqueued) : enqueued[k].t > enqueued[k].at + enqueued[k].d

\* C3: under InOrder, tasks with equal deadline are resumed in the order of
\* their delay() calls: of two resumed tasks with the same deadline the one
\* resumed first has the smaller sequence number, and no pending task has the
\* deadline of a resumed task and a smaller sequence number
C3_EqualDeadlineFifo ==
    scheduling_strategy_ = "InOrder" =>
        /\ \A i \in 1..Len(resumed) : \A j \in 1..Len(resumed) :
              (i < j /\ resumed[i].t = resumed[j].t)
                  => resumed[i].stable < resumed[j].stable
        /\ \A i \in 1..Len(resumed) : \A k \in 1..Len(tasks_) :
              resumed[i].t = tasks_[k].t => resumed[i].stable < tasks_[k].stable

\* C3 witness: two tasks with the same deadline were pending together and
\* were resumed in enqueue order, with another task enqueued between them
C3_Witness ==
    /\ scheduling_strategy_ = "InOrder"
    /\ \E i \in 1..Len(resumed) : \E j \in 1..Len(resumed) :
          /\ i < j
          /\ resumed[i].t = resumed[j].t
          /\ resumed[j].stable > resumed[i].stable + 1
          /\ \A k \in 1..Len(enqueued) : enqueued[k].from = "main"

\* C4: stop() is permanent: once running is false it stays false, no task is
\* resumed any more, and every pending task stays in pending
C4_StopIsPermanent ==
    [][~running =>
          /\ ~running'
          /\ resumed' = resumed
          /\ \A i \in 1..Len(tasks_) :
                \E j \in 1..Len(tasks_') : tasks_'[j] = tasks_[i]]_vars

\* C4 witness: stop() was called by a resumed task, run() returned with
\* tasks still pending, and run() was called again and returned
C4_Witness ==
    /\ ~running
    /\ stoppedIn = "task"
    /\ runAfterStop
    /\ pc = "main"
    /\ Len(tasks_) >= 2
    /\ Len(resumed) = 1

----------------------------------------------------------------------------
(* Properties of the byte encoding *)

\* arithmetic on little-endian base-256 numbers, for the properties
RECURSIVE BigAdd(_, _, _)
BigAdd(a, b, carry) ==
    IF a = <<>> /\ b = <<>>
    THEN IF carry = 0 THEN <<>> ELSE <<carry>>
    ELSE LET x == IF a = <<>> THEN 0 ELSE Head(a)
             y == IF b = <<>> THEN 0 ELSE Head(b)
             v == x + y + carry
         IN  <<v % 256>> \o BigAdd(IF a = <<>> THEN <<>> ELSE Tail(a),
                                   IF b = <<>> THEN <<>> ELSE Tail(b),
                                   v \div 256)

RECURSIVE BigMul(_, _)
BigMul(a, b) ==
    IF a = <<>> THEN <<>>
    ELSE BigAdd(BigMulSmall(b, Head(a), 0), <<0>> \o BigMul(Tail(a), b), 0)

RECURSIVE BigNorm(_)
BigNorm(a) ==
    IF a # <<>> /\ a[Len(a)] = 0 THEN BigNorm(SubSeq(a, 1, Len(a) - 1)) ELSE a

BigEq(a, b) == BigNorm(a) = BigNorm(b)

RECURSIVE BigLessSameLen(_, _)
BigLessSameLen(a, b) ==
    IF a = <<>> THEN FALSE
    ELSE \/ a[Len(a)] < b[Len(b)]
         \/ /\ a[Len(a)] = b[Len(b)]
            /\ BigLessSameLen(SubSeq(a, 1, Len(a) - 1), SubSeq(b, 1, Len(b) - 1))

BigLess(a, b) ==
    LET x == BigNorm(a)
        y == BigNorm(b)
    IN  Len(x) < Len(y) \/ (Len(x) = Len(y) /\ BigLessSameLen(x, y))

\* 2^32
TwoTo32 == <<0, 0, 0, 0, 1>>

\* the rationals an/ad and bn/bd are equal; an/ad is less than 1/4
RatEq(an, ad, bn, bd) == BigEq(BigMul(an, bd), BigMul(bn, ad))
RatLessQuarter(an, ad) == BigLess(BigMulSmall(an, 4, 0), ad)

\* the bytes b read as a little-endian unsigned number
RECURSIVE UnsignedLE(_)
UnsignedLE(b) ==
    IF b = <<>> THEN 0 ELSE b[1] + 256 * UnsignedLE(SubSeq(b, 2, Len(b)))

\* n < 256^k
RECURSIVE Below256ToThe(_, _)
Below256ToThe(n, k) ==
    IF k = 0 THEN n < 1 ELSE Below256ToThe(n \div 256, k - 1)

\* the least k with n <= 256^k, which is ceil(log_256(n)) for n >= 1
CeilLog256(n) == CHOOSE k \in 0..8 :
    /\ Below256ToThe(n - 1, k)
    /\ \A j \in 0..(k - 1) : ~Below256ToThe(n - 1, j)

\* the least k with n < 256^k, the number of base-256 digits of n
Digits256(n) == CHOOSE k \in 0..8 :
    /\ Below256ToThe(n, k)
    /\ \A j \in 0..(k - 1) : ~Below256ToThe(n, j)

IntDraws(log) == {i \in 1..Len(log) : log[i].kind = "int"}
Draws01(log) == {i \in 1..Len(log) : log[i].kind = "01"}

\* C6: record/replay round trip of randomInt: replaying the recorded bytes
\* with the same calls returns every recorded result from the same bytes,
\* never runs out of bytes, and leaves no byte over after the last call
C6_RandomIntRoundTrip ==
    mode = "roundtrip" =>
        /\ cpc # "EndSimulation"
        /\ \A i \in IntDraws(results) :
              /\ results[i].value = calls[i].value
              /\ results[i].raw = calls[i].raw
        /\ (cpc = "replay" /\ Len(results) = Len(calls)) => rep_bytes = <<>>

\* C6 witness: two randomInt draws over different ranges were recorded and
\* replayed, one of them a two-byte draw with a result of at least 256
C6_Witness ==
    /\ mode = "roundtrip" /\ cpc = "replay"
    /\ Len(calls) = 2 /\ Len(results) = 2
    /\ IntDraws(calls) = {1, 2}
    /\ calls[1].max_plus_one - calls[1].min # calls[2].max_plus_one - calls[2].min
    /\ \E i \in 1..2 :
          /\ Len(results[i].raw) = 2
          /\ results[i].value - results[i].min >= 256
    /\ rep_bytes = <<>>

\* C7: record/replay round trip of random01: the replay of the 4 recorded
\* bytes returns exactly the recorded r, and r < 0.25 has the same outcome
\* in the recorded run and in the replay
C7_Random01RoundTrip ==
    mode = "roundtrip" =>
        \A i \in Draws01(results) :
            /\ RatEq(results[i].num, results[i].den, calls[i].num, calls[i].den)
            /\ RatLessQuarter(results[i].num, results[i].den)
                   <=> RatLessQuarter(calls[i].num, calls[i].den)

\* C8: ReplayRandomBytes::randomInt(lo, hi) returns clamp(lo + d, lo, hi - 1)
\* for the consumed bytes read as the little-endian unsigned d, a value in
\* [lo, hi), for every content of the bytes; the bytes fit the int64 they
\* are copied into
C8_ReplayRandomIntInRange ==
    \A i \in IntDraws(results) :
        LET e == results[i]
            d == UnsignedLE(e.raw)
        IN  /\ e.min <= e.value /\ e.value < e.max_plus_one
            /\ e.value = IF e.min + d > e.max_plus_one - 1
                         THEN e.max_plus_one - 1 ELSE e.min + d
            /\ Len(e.raw) <= 8

\* C8 witness: a fuzz input whose offset is beyond the range was clamped to
\* hi - 1, and another draw was inside the range
C8_Witness ==
    /\ mode = "fuzz"
    /\ \E i \in IntDraws(results) :
          /\ results[i].min + UnsignedLE(results[i].raw) >= results[i].max_plus_one
          /\ results[i].value = results[i].max_plus_one - 1
          /\ results[i].min < 0
    /\ \E i \in IntDraws(results) :
          /\ UnsignedLE(results[i].raw) > 0
          /\ results[i].min + UnsignedLE(results[i].raw) < results[i].max_plus_one - 1

\* C9: ReplayRandomBytes::random01 returns a value in the half-open interval
\* [0, 1) for every 4-byte input, the all-ones input 0xFFFFFFFF included (as
\* the value u32 / 2^32 of the claim would be)
C9_ReplayRandom01InUnitInterval ==
    \A i \in Draws01(results) :
        /\ BigLess(results[i].num, results[i].den)
        /\ BigLess(results[i].raw, TwoTo32)

\* C10 as claimed: a randomInt(lo, hi) draw appends and consumes
\* ceil(log_256(hi - lo)) bytes, the least k with hi - lo <= 2^(8k)
C10_BytesAreCeilLog256 ==
    /\ \A i \in IntDraws(calls) :
          Len(calls[i].raw) = CeilLog256(calls[i].max_plus_one - calls[i].min)
    /\ \A i \in IntDraws(results) :
          Len(results[i].raw) = CeilLog256(results[i].max_plus_one - results[i].min)

\* C10 as amended: a randomInt(lo, hi) draw appends and consumes the least k
\* with hi - lo < 2^(8k) bytes, the number of base-256 digits of hi - lo
C10_BytesAreDigits256 ==
    /\ \A i \in IntDraws(calls) :
          Len(calls[i].raw) = Digits256(calls[i].max_plus_one - calls[i].min)
    /\ \A i \in IntDraws(results) :
          Len(results[i].raw) = Digits256(results[i].max_plus_one - results[i].min)

\* C10 witness: a draw over 256 values was recorded in 2 bytes and a draw
\* over 65536 values was replayed from 3 bytes
C10_Witness ==
    /\ \E i \in IntDraws(calls) :
          /\ calls[i].max_plus_one - calls[i].min = 256
          /\ Len(calls[i].raw) = 2
    /\ \E i \in IntDraws(results) :
          /\ results[i].max_plus_one - results[i].min = 65536
          /\ Len(results[i].raw) = 3

\* the bytes of the draws of a log, in call order
RECURSIVE RawBytes(_)
RawBytes(log) ==
    IF log = <<>> THEN <<>> ELSE Head(log).raw \o RawBytes(Tail(log))

\* the bytes a draw needs: 4 for random01, the base-256 digits of hi - lo
\* for randomInt
BytesNeeded(a) ==
    IF a.kind = "01" THEN 4 ELSE Digits256(a.max_plus_one - a.min)

\* C11: a replay draw fails with EndSimulation exactly when fewer bytes
\* remain than the draw needs; a failing draw consumes nothing, a succeeding
\* draw consumes exactly the bytes it needs, and the bytes consumed so far
\* are a prefix of the input, in call order
C11_EndSimulationIffTooFewBytes ==
    attempt.kind # "none" =>
        /\ attempt.size = BytesNeeded(attempt)
        /\ attempt.threw <=> attempt.had < attempt.size
        /\ attempt.threw <=> cpc = "EndSimulation"
        /\ attempt.threw => Len(rep_bytes) = attempt.had
        /\ ~attempt.threw =>
              /\ Len(rep_bytes) = attempt.had - attempt.size
              /\ Len(results[Len(results)].raw) = attempt.size
        /\ rep_input = RawBytes(results) \o rep_bytes

\* C11 witness: after a draw that succeeded, a random01 draw failed with
\* three bytes left, which stay where they were
C11_Witness ==
    /\ cpc = "EndSimulation"
    /\ attempt.kind = "01"
    /\ Len(results) >= 1
    /\ Len(rep_bytes) = 3
    /\ Len(rep_input) > 3

----------------------------------------------------------------------------
(* More properties of the scheduler *)

\* the amount that the k-th delay() call added to its argument
Added(k) == enqueued[k].t - enqueued[k].at - enqueued[k].d

\* C13: buggification bound: max_buggified_delay is in [0, 0.2), and the
\* amount a delay() call adds to its argument is at least 0 and below
\* max_buggified_delay (nothing is added when max_buggified_delay is 0), for
\* every oracle
C13_BuggificationBound ==
    /\ 0 <= max_buggified_delay /\ max_buggified_delay < BuggifyFactor
    /\ \A k \in 1..Len(enqueued) :
          /\ 0 <= Added(k)
          /\ IF max_buggified_delay = 0 THEN Added(k) = 0
             ELSE Added(k) < max_buggified_delay

\* C14: with InOrder, no buggification and no stop(), run() at the head of
\* its loop returns exactly when pending is empty, so it never returns with
\* a task pending, and when it returns every enqueued task has been resumed
C14_RunReturnsIffPendingEmpty ==
    [][(scheduling_strategy_ = "InOrder" /\ max_buggified_delay = 0
        /\ running /\ pc = "run" /\ pc' # pc) =>
          /\ (pc' = "main") <=> (tasks_ = <<>>)
          /\ pc' = "main" =>
                /\ tasks_' = <<>>
                /\ Len(resumed') = Len(enqueued')
                /\ \A k \in 1..Len(enqueued') : \E i \in 1..Len(resumed') :
                      resumed'[i].stable = enqueued'[k].stable]_vars

\* C14 witness: run() has returned with pending empty after resuming three
\* tasks, one of them enqueued during the run; nobody called stop()
C14_Witness ==
    /\ scheduling_strategy_ = "InOrder" /\ max_buggified_delay = 0
    /\ running /\ pc = "main"
    /\ tasks_ = <<>>
    /\ Len(resumed) >= 3
    /\ \E k \in 1..Len(enqueued) : enqueued[k].from = "task"

\* the number of entries of the log or vector s with sequence number n
CountStable(s, n) == Cardinality({i \in 1..Len(s) : s[i].stable = n})

C19_BuggificationTiedToStrategy ==
    /\ scheduling_strategy_ = "InOrder" =>
          /\ draws.ctor = 1
          /\ 2 * max_buggified_delay = BuggifyFactor * draws.ctor01
          /\ draws.run = 0
    /\ scheduling_strategy_ = "RandomOrder" =>
          /\ draws.ctor = 0
          /\ max_buggified_delay = 0
          /\ draws.delay = 0
          /\ \A k \in 1..Len(enqueued) :
                enqueued[k].t = enqueued[k].at + enqueued[k].d
          /\ draws.run = Len(resumed)
          /\ \A i \in 1..Len(resumed) :
                resumed[i].hi = resumed[i].pending /\ resumed[i].pending >= 1

\* C19 witness: under RandomOrder two tasks were enqueued and dispatched, the
\* first picked among two pending tasks
C19_Witness ==
    /\ scheduling_strategy_ = "RandomOrder"
    /\ Len(resumed) >= 2
    /\ resumed[1].hi = 2
    /\ draws.run = 2
    /\ \E k \in 1..Len(enqueued) : enqueued[k].d > 0

----------------------------------------------------------------------------
(* Properties of the example workload *)

\* C12: in fuzz mode a draw that finds too few bytes, whether run() makes it
\* to pick a task or a resumed actor makes it, ends the simulation: the
\* EndSimulation is caught in runSimulation, which returns; the run never
\* aborts after it and no task is resumed after it.
C12_EndSimulationIsCaught ==
    [][/\ attempt'.threw => pc' \in {"EndSimulation", "returned"}
       /\ attempt.threw => (pc' = "returned" /\ resumed' = resumed
                            /\ tasks_' = tasks_ /\ elements' = elements)]_vars

\* a draw of a resumed client threw and runSimulation has returned
C12_Witness ==
    /\ oracle = "ReplayRandomBytes"
    /\ pc = "returned"
    /\ attempt.threw
    /\ attempt.kind = "client"
    /\ resumed # <<>>

\* C15 as stated: in the stop-after scenario, once run() has returned no
\* task was resumed with now > 10 seconds and the periodic task was resumed
\* at most 11 times, under InOrder and under RandomOrder.
C15_StopAfter ==
    pc = "returned" =>
        /\ \A n \in 1..Len(resumed) : resumed[n].now <= TenSeconds
        /\ Resumptions(1) <= 11

\* C15 amended: under InOrder no task is ever resumed with now more than
\* max_buggified_delay past 10 seconds (not past 10 seconds when
\* max_buggified_delay is 0) and the periodic task is resumed at most 11
\* times.
C15_StopAfterInOrder ==
    scheduling_strategy_ = "InOrder" =>
        /\ \A n \in 1..Len(resumed) :
              resumed[n].now <= TenSeconds + max_buggified_delay
        /\ Resumptions(1) <= 11

\* under InOrder run() has returned after stopAfterSeconds was resumed
\* later than 10 seconds
C15_Witness ==
    /\ scheduling_strategy_ = "InOrder"
    /\ pc = "returned"
    /\ ~running
    /\ Resumptions(1) >= 9
    /\ \E n \in 1..Len(resumed) :
          resumed[n].p = 0 /\ resumed[n].now > TenSeconds

\* C16: under RandomOrder the workload aborts only after two swaps that
\* share a slot have overlapped, which is what makes elements cease to be a
\* permutation of 0..kSize-1; the witness is the schedule the claim says
\* exists.
C16_AbortsOnlyAfterSharedOverlap ==
    (started > 0 /\ scheduling_strategy_ = "RandomOrder") =>
        /\ ~checkInvariant(elements) => sharedOverlap
        /\ pc = "abort" => (sharedOverlap /\ ~checkInvariant(elements))

\* two swaps that share a slot overlapped, elements is not a permutation
\* and a later checkInvariant() aborted
C16_Witness ==
    /\ scheduling_strategy_ = "RandomOrder"
    /\ sharedOverlap
    /\ ~checkInvariant(elements)
    /\ pc = "abort"
    /\ \A c \in 1..NumClients : actors[c].at = "poisson"

\* C17: under InOrder with zero buggification no swap of another client
\* reads or writes between a swap's reads and its writes, and the workload
\* does not abort.
C17_InOrderNoInterleaving ==
    (started > 0 /\ scheduling_strategy_ = "InOrder"
     /\ max_buggified_delay = 0) =>
        /\ ~interleaved
        /\ checkInvariant(elements)
        /\ pc # "abort"

\* C20: every delay(d) of the workload is called with d >= 0.
C20_WorkloadDelaysNonNegative == started > 0 => ~negDelay

\* LLVMFuzzerTestOneInput has ended: runSimulation returned (after stop()
\* or after it caught EndSimulation) or checkInvariant() aborted
FuzzEnded == pc \in {"returned", "abort"}

\* C21: in fuzz mode every iteration of the loop of run() that resumes a
\* task consumes at least one byte of the input (bytesRequired is at least 1
\* for every number of pending tasks, one included), and every run ends:
\* by stop(), by EndSimulation or by the abort of checkInvariant().
C21_FuzzTerminates ==
    /\ [][/\ \A n \in 1..(NumClients + 1) : bytesRequired(n) >= 1
          /\ resumed' # resumed => Len(rep_bytes') < Len(rep_bytes)]_vars
    /\ <>FuzzEnded

\* a fuzz run that resumed a client, consumed the bytes of its draws and was
\* then ended by stop()
C21_Witness ==
    /\ oracle = "ReplayRandomBytes"
    /\ pc = "returned"
    /\ ~running
    /\ \E n \in 1..Len(resumed) : resumed[n].p # 0
    /\ Len(rep_bytes) < Len(rep_input)
    /\ ~attempt.threw

(***************************************************************************)
(* quorumEqualsTrue (flow/genericactors.actor.cpp)                         *)
(***************************************************************************)

\* the largest number of futures given to quorumEqualsTrue
MaxFutures == 3

\* a Future<bool>: not resolved yet, or resolved to true or to false
FutureStates == {"pending", "true", "false"}

\* onEqual(in, equalTo): ready once in has resolved to equalTo, never ready
\* once in has resolved to the other value
onEqual(in, equalTo) ==
    IF in = "pending" THEN "pending"
    ELSE IF in = equalTo THEN "ready"
    ELSE "never"

\* quorum(results, n): ready once n of the results are ready
quorum(rs, n) ==
    Cardinality({i \in 1..Len(rs) : rs[i] = "ready"}) >= n

\* the loop of quorumEqualsTrue: one onEqual(futures[i], true) and one
\* onEqual(futures[i], false) for each future
true_futures(fs) == [i \in 1..Len(fs) |-> onEqual(fs[i], "true")]

false_futures(fs) == [i \in 1..Len(fs) |-> onEqual(fs[i], "false")]

falseRequiredWithoutOne(fs, req) == Len(fs) - req

\* the size of the quorum of false_futures: futures.size() - required + 1
falseRequired(fs, req) == Len(fs) - req + 1

\* the choose of quorumEqualsTrue: the values it returns now (none while
\* neither quorum is ready); the when of true_futures comes first
choose(fs, req) ==
    IF quorum(true_futures(fs), req) THEN <<"true">>
    ELSE IF quorum(false_futures(fs), falseRequired(fs, req)) THEN <<"false">>
    ELSE <<>>

\* before the call: n futures, each resolved or not, and 1 <= required <= n
QuorumInit ==
    /\ \E n \in 1..MaxFutures :
          /\ futures \in [1..n -> FutureStates]
          /\ required \in 1..n
    /\ qpc = "start"
    /\ qresult = <<>>
    /\ qfutures = <<>>
    /\ SchedIdle
    /\ CodecIdle
    /\ WorkloadIdle

\* the call: the actor runs to its choose, and returns at once when a quorum
\* is ready already
quorumEqualsTrue ==
    /\ qpc = "start"
    /\ \E r \in {choose(futures, required)} :
          /\ qresult' = qresult \o r
          /\ qpc' = IF r = <<>> THEN "choose" ELSE "done"
          /\ qfutures' = IF r = <<>> THEN qfutures ELSE futures
    /\ UNCHANGED <<futures, required>>
    /\ UNCHANGED schedVars
    /\ UNCHANGED codecVars
    /\ UNCHANGED workloadVars

\* future i resolves to v; an actor waiting in its choose is resumed in the
\* same step when this makes a quorum ready
resolve(i, v) ==
    /\ qpc \in {"start", "choose", "done"}
    /\ i \in 1..Len(futures)
    /\ futures[i] = "pending"
    /\ futures' = [futures EXCEPT ![i] = v]
    /\ IF qpc = "choose"
       THEN \E r \in {choose(futures', required)} :
               /\ qresult' = qresult \o r
               /\ qpc' = IF r = <<>> THEN "choose" ELSE "done"
               /\ qfutures' = IF r = <<>> THEN qfutures ELSE futures'
       ELSE UNCHANGED <<qpc, qresult, qfutures>>
    /\ UNCHANGED required
    /\ UNCHANGED schedVars
    /\ UNCHANGED codecVars
    /\ UNCHANGED workloadVars

NextQuorum ==
    \/ quorumEqualsTrue
    \/ \E i \in 1..MaxFutures : \E v \in {"true", "false"} : resolve(i, v)

SpecQuorum == QuorumInit /\ [][NextQuorum]_vars

\* the number of the futures fs that have resolved to v
Resolved(fs, v) == Cardinality({i \in 1..Len(fs) : fs[i] = v})

====
